---- MODULE Spec2Model ----
(***************************************************************************)
(* PDF-2-Text: a model of the two pipeline stages.                         *)
(*   Module1.py  pdf_to_markdown: per-page extraction on a bounded thread  *)
(*               pool, reassembly into a page-delimited markdown file.     *)
(*   Module2.py  extract_rules_from_markdown: page parsing, strategy       *)
(*               selection, single pass or sliding window + consolidation. *)
(* Text is a sequence of one-character strings, so that formatting and     *)
(* the regular-expression parser are computed character by character.      *)
(***************************************************************************)
EXTENDS Integers, Sequences, FiniteSets, TLC

VARIABLES
    \* ---- Module1.py
    pdf_exists,     \* os.path.exists(pdf_path)
    images,         \* list returned by pdf_to_images (one image id per page)
    workers,        \* max_workers of the ThreadPoolExecutor
    total,          \* info["Pages"]
    fails,          \* per page: Ok, or the cause the service call raises
    pc,             \* position of pdf_to_markdown's thread
    submitted,      \* number of executor.submit calls made
    started,        \* number of work items taken off the executor's queue
    running,        \* pages whose extract_page call is executing
    futures,        \* page -> result of its future, Pending while not set
    collected,      \* number of f.result() consumed by dict(...)
    results,        \* the dict built by extract_parallel
    assembled,      \* number of iterations of the assembly loop done
    md,             \* the list md of text pieces
    completion,     \* history: pages in the order their requests completed
    mdfile,         \* contents of the markdown file on disk
    \* ---- Module2.py
    override,       \* the caller's use_sliding_window: "None", "True", "False"
    use_sliding_window, \* the variable as extract_rules_from_markdown sets it
    pc2,            \* position of extract_rules_from_markdown
    markdown_content,
    total_pages,    \* len(pages) in extract_rules_from_markdown
    pages,          \* pages dict of the sliding-window function
    win,            \* loop variable i of the window loop
    all_extractions,
    calls,          \* analysis-service requests issued so far, in order
    result,         \* value returned by the strategy
    rules_file,     \* contents of the report file
    input_pieces    \* history: the pieces a hand-made input file was put together from

vars1 == <<pdf_exists, images, workers, total, fails, pc, submitted, started, running,
           futures, collected, results, assembled, md, completion>>
vars2 == <<override, use_sliding_window, pc2, markdown_content, total_pages,
           pages, win, all_extractions, calls, result, rules_file, input_pieces>>
vars == <<vars1, mdfile, vars2>>

---------------------------------------------------------------------------
\* Bounds of the model
MaxPages == 3       \* pages of a stage-1 run
MaxWorkers == 3     \* largest max_workers tried
MaxChunks == 2      \* chunks concatenated into one page text (round trip)
MaxDocPages == 15   \* pages of a stage-2 input document
MaxPieces == 4      \* pieces put together into a hand-made input file

---------------------------------------------------------------------------
\* Text helpers

Pending == [kind |-> "pending"]
NoFile == [exists |-> FALSE]
File(text) == [exists |-> TRUE, text |-> text]
None == [kind |-> "None"]
\* the extraction call of a page succeeds: no cause raised
Ok == <<>>

Digits == <<"0", "1", "2", "3", "4", "5", "6", "7", "8", "9">>

RECURSIVE Str(_)
\* str(n) of a non-negative integer, as f"{n}" formats it
Str(n) == IF n < 10 THEN <<Digits[n + 1]>>
          ELSE Str(n \div 10) \o <<Digits[(n % 10) + 1]>>

\* value of one decimal digit character
DigitValue(c) == CHOOSE d \in 0..9 : Digits[d + 1] = c

RECURSIVE ParseInt(_)
\* int(s) of a non-empty string of decimal digits
ParseInt(s) == IF Len(s) = 1 THEN DigitValue(s[1])
               ELSE 10 * ParseInt(SubSeq(s, 1, Len(s) - 1)) + DigitValue(s[Len(s)])

RECURSIVE Join(_)
\* "".join(list)
Join(list) == IF list = <<>> THEN <<>> ELSE Head(list) \o Join(Tail(list))

\* f"## Page {i}\n\n"
PageHeader(i) == <<"#", "#", " ", "P", "a", "g", "e", " ">> \o Str(i) \o <<"\n", "\n">>

\* "\n\n---\n\n"
Separator == <<"\n", "\n", "-", "-", "-", "\n", "\n">>

\* "[Missing]"
Missing == <<"[", "M", "i", "s", "s", "i", "n", "g", "]">>

\* f"[Error: {e}]"
ErrorMarker(cause) ==
    <<"[", "E", "r", "r", "o", "r", ":", " ">> \o cause \o <<"]">>

\* the two leading pieces of md: title line and "**Pages:** ..." line; the
\* file name is "f" and the date is "D"
DocHeader(n) ==
    << <<"#", " ", "f", "\n">>,
       <<"*", "*", "P", "a", "g", "e", "s", ":", "*", "*", " ">> \o Str(n)
         \o <<" ", "|", " ", "D", "\n", "\n", "-", "-", "-", "\n", "\n">> >>

\* pages.get(i): a page without a result is given no text
DictGetNoDefault(d, k, default) == IF k \in DOMAIN d THEN d[k] ELSE <<>>

\* pages.get(i, "[Missing]")
DictGet(d, k, default) == IF k \in DOMAIN d THEN d[k] ELSE default

\* d.setdefault(k, v): the first value stored for a key is kept
DictPutKeepFirst(d, k, v) ==
    [x \in (DOMAIN d) \cup {k} |-> IF x \in DOMAIN d THEN d[x] ELSE v]

\* d[k] = v of a dict (a later value for a key replaces the earlier one)
DictPut(d, k, v) == [x \in (DOMAIN d) \cup {k} |-> IF x = k THEN v ELSE d[x]]

EmptyDict == [x \in {} |-> <<>>]

---------------------------------------------------------------------------
\* The text-extraction service (external). An image is identified by the
\* pieces of text printed on it; the service transcribes them in order.

Chunks == << <<"a">>,
             <<"\n">>,
             <<"\n", "\n", "-", "-", "-", "\n", "\n">>,
             <<"#", "#", " ", "P", "a", "g", "e", " ", "2", "\n", "\n">>,
             <<" ">>,
             <<"b">> >>

\* every image showing at most n pieces
ImagesUpTo(n) == UNION {[1..k -> 1..Len(Chunks)] : k \in 0..n}

\* the images of a stage-1 run: "a" and "b\na"
ImageIds == {<<1>>, <<6, 2, 1>>}
Causes == {<<"t">>, <<"4", "2", "9">>}

Transcribe(img) == Join([k \in 1..Len(img) |-> Chunks[img[k]]])

\* extract_page without its except clause: the cause escapes the task
ExtractPageNoCatch(img, page_num, outcome) ==
    IF outcome = Ok
    THEN [kind |-> "value", val |-> <<page_num, Transcribe(img)>>]
    ELSE [kind |-> "exception", cause |-> outcome]

\* extract_page(img_b64, page_num): the service call returns its text, or
\* raises and the except clause turns the cause into a failure marker; either
\* way the function returns the pair (page_num, text)
ExtractPage(img, page_num, outcome) ==
    IF outcome = Ok
    THEN [kind |-> "value", val |-> <<page_num, Transcribe(img)>>]
    ELSE [kind |-> "value", val |-> <<page_num, ErrorMarker(outcome)>>]

\* a pool that starts a thread for every queued work item
CanStartUnbounded(run, max_workers) == TRUE

\* ThreadPoolExecutor(max_workers): a queued work item is taken only by one
\* of at most max_workers threads, each running one item at a time
CanStart(run, max_workers) == Cardinality(run) < max_workers

\* the check of the path left out
PdfFoundAlways(exists) == TRUE

\* os.path.exists(pdf_path)
PdfFound(exists) == exists

\* enumerate(images): page numbers counted from 0
TaskArgsFromZero(imgs, k) == <<imgs[k], k - 1>>

\* the arguments (img, i) of the k-th submitted task: enumerate(images, 1)
TaskArgs(imgs, k) == <<imgs[k], k>>

\* a failed request is issued again: the page stays in flight
RunningAfterRetry(run, p, outcome) == IF outcome = Ok THEN run \ {p} ELSE run

\* extract_page returns after its one request, whatever the outcome: the
\* page is no longer in flight
RunningAfter(run, p, outcome) == run \ {p}

\* range(1, total): the last page is left out
AssembleRangeShort(n) == 1..(n - 1)

\* range(1, total + 1) of the assembly loop
AssembleRange(n) == 1..n

---------------------------------------------------------------------------
\* Module2.py: parse_markdown_by_pages

Whitespace == {" ", "\n", "\t"}
IsDigit(c) == \E d \in 1..10 : Digits[d] = c

\* pat occurs in s at position pos
MatchAt(s, pat, pos) ==
    /\ pos + Len(pat) - 1 <= Len(s)
    /\ \A k \in 1..Len(pat) : s[pos + k - 1] = pat[k]

RECURSIVE DigitRunEnd(_, _)
\* \d+ is greedy: the position after the run of digits that starts at pos
DigitRunEnd(s, pos) ==
    IF pos <= Len(s) /\ IsDigit(s[pos]) THEN DigitRunEnd(s, pos + 1) ELSE pos

\* (.*?)(?=\n\n---\n\n|\Z) with DOTALL: the lazy group stops at the first
\* position at or after pos where the separator starts, else at end of input
ContentEnd(s, pos) ==
    LET stops == {q \in pos..(Len(s) + 1) :
                    q = Len(s) + 1 \/ MatchAt(s, Separator, q)}
    IN CHOOSE q \in stops : \A r \in stops : q <= r

\* the pattern's prefix '## Page (\d+)\n\n' matches at pos; once it does the
\* whole pattern matches, since \Z ends the lazy group at the latest
HeaderAt(s, pos) ==
    /\ MatchAt(s, <<"#", "#", " ", "P", "a", "g", "e", " ">>, pos)
    /\ DigitRunEnd(s, pos + 8) > pos + 8
    /\ MatchAt(s, <<"\n", "\n">>, DigitRunEnd(s, pos + 8))

RECURSIVE FindAll(_, _)
\* re.findall(r'## Page (\d+)\n\n(.*?)(?=\n\n---\n\n|\Z)', s, re.DOTALL) from
\* position pos on: the non-overlapping matches, left to right, each the pair
\* of its two groups; the scan resumes where a match ended
FindAll(s, pos) ==
    LET starts == {q \in pos..Len(s) : HeaderAt(s, q)} IN
    IF starts = {} THEN <<>>
    ELSE LET q == CHOOSE x \in starts : \A y \in starts : x <= y
             d == q + 8
             e == DigitRunEnd(s, d)
             c == e + 2
         IN <<  <<SubSeq(s, d, e - 1), SubSeq(s, c, ContentEnd(s, c) - 1)>>  >>
              \o FindAll(s, ContentEnd(s, c))

RECURSIVE Strip(_)
\* str.strip()
Strip(t) ==
    IF t = <<>> THEN t
    ELSE IF Head(t) \in Whitespace THEN Strip(Tail(t))
    ELSE IF t[Len(t)] \in Whitespace THEN Strip(SubSeq(t, 1, Len(t) - 1))
    ELSE t

RECURSIVE StoreMatches(_, _)
\* for page_num, content in matches: pages[int(page_num)] = content.strip()
StoreMatches(d, matches) ==
    IF matches = <<>> THEN d
    ELSE StoreMatches(DictPut(d, ParseInt(Head(matches)[1]), Strip(Head(matches)[2])),
                      Tail(matches))

ParseMarkdownByPages(content) == StoreMatches(EmptyDict, FindAll(content, 1))

---------------------------------------------------------------------------
\* Module1.py: pdf_to_markdown

Stage2Idle ==
    /\ override = "None"
    /\ use_sliding_window = "None"
    /\ pc2 = "idle"
    /\ markdown_content = <<>>
    /\ total_pages = 0
    /\ pages = EmptyDict
    /\ win = 0
    /\ all_extractions = <<>>
    /\ calls = <<>>
    /\ result = None
    /\ rules_file = NoFile
    /\ input_pieces = <<>>

\* State at the call of pdf_to_markdown: the PDF exists or not; if it does,
\* pdfinfo_from_path will give its page count and pdf_to_images one image per
\* page of the same PDF; the service's outcome for each page is fixed
Init ==
    /\ pdf_exists \in BOOLEAN
    /\ \E n \in (IF pdf_exists THEN 1..MaxPages ELSE {0}) :
         /\ images \in [1..n -> ImageIds]
         /\ total = n
         /\ fails \in [1..n -> {Ok} \cup Causes]
         /\ futures = [p \in 1..n |-> Pending]
    /\ workers \in 1..MaxWorkers
    /\ pc = "start"
    /\ submitted = 0
    /\ started = 0
    /\ running = {}
    /\ collected = 0
    /\ results = EmptyDict
    /\ assembled = 0
    /\ md = <<>>
    /\ completion = <<>>
    /\ mdfile = NoFile
    /\ Stage2Idle

\* if not os.path.exists(pdf_path): raise FileNotFoundError; else the page
\* count is read and the pages are rendered
OpenPdf ==
    /\ pc = "start"
    /\ pc' = IF PdfFound(pdf_exists) THEN "submit" ELSE "notfound"
    /\ UNCHANGED <<pdf_exists, images, workers, total, fails, submitted, started,
                   running, futures, collected, results, assembled, md, mdfile,
                   completion, vars2>>

\* futures = [executor.submit(extract_page, img, i) for i, img in enumerate(images, 1)]
Submit ==
    /\ pc = "submit"
    /\ submitted < Len(images)
    /\ submitted' = submitted + 1
    /\ pc' = IF submitted + 1 = Len(images) THEN "collect" ELSE "submit"
    /\ UNCHANGED <<pdf_exists, images, workers, total, fails, started, running, futures,
                   collected, results, assembled, md, mdfile, completion, vars2>>

\* a pool thread takes the oldest queued work item and calls extract_page,
\* which issues the extraction request
StartTask ==
    /\ started < submitted
    /\ CanStart(running, workers)
    /\ started' = started + 1
    /\ running' = running \cup {started + 1}
    /\ UNCHANGED <<pdf_exists, images, workers, total, fails, pc, submitted, futures,
                   collected, results, assembled, md, mdfile, completion, vars2>>

\* the extraction request of page p returns or raises; extract_page returns
\* and the future of page p is set
FinishTask(p) ==
    /\ p \in running
    /\ running' = RunningAfter(running, p, fails[p])
    /\ futures' = [futures EXCEPT ![p] =
                      ExtractPage(TaskArgs(images, p)[1], TaskArgs(images, p)[2], fails[p])]
    /\ completion' = Append(completion, p)
    /\ UNCHANGED <<pdf_exists, images, workers, total, fails, pc, submitted, started,
                   collected, results, assembled, md, mdfile, vars2>>

\* results = dict(f.result() for f in futures): the next future in list order
\* is waited for; its pair is stored under the pair's page number, or its
\* exception is raised again. After the last one the with block ends and md
\* starts with the two header pieces
Collect ==
    /\ pc = "collect"
    /\ collected < Len(images)
    /\ futures[collected + 1] # Pending
    /\ LET f == futures[collected + 1] IN
         IF f.kind = "value"
         THEN /\ results' = DictPut(results, f.val[1], f.val[2])
              /\ collected' = collected + 1
              /\ pc' = IF collected + 1 = Len(images) THEN "assemble" ELSE "collect"
              /\ md' = IF collected + 1 = Len(images) THEN DocHeader(total) ELSE md
         ELSE /\ pc' = "raised"
              /\ UNCHANGED <<results, collected, md>>
    /\ UNCHANGED <<pdf_exists, images, workers, total, fails, submitted, started, running,
                   futures, assembled, mdfile, completion, vars2>>

\* for i in range(1, total + 1): md.extend([header, pages.get(i, "[Missing]"), separator])
Assemble ==
    /\ pc = "assemble"
    /\ assembled + 1 \in AssembleRange(total)
    /\ md' = md \o <<PageHeader(assembled + 1),
                     DictGet(results, assembled + 1, Missing),
                     Separator>>
    /\ assembled' = assembled + 1
    /\ UNCHANGED <<pdf_exists, images, workers, total, fails, pc, submitted, started,
                   running, futures, collected, results, mdfile, completion, vars2>>

\* f.write("".join(md)); return output
WriteMarkdown ==
    /\ pc = "assemble"
    /\ assembled + 1 \notin AssembleRange(total)
    /\ mdfile' = File(Join(md))
    /\ pc' = "done"
    /\ UNCHANGED <<pdf_exists, images, workers, total, fails, submitted, started, running,
                   futures, collected, results, assembled, md, completion, vars2>>

Next ==
    \/ OpenPdf
    \/ Submit
    \/ StartTask
    \/ \E p \in 1..MaxPages + 1 : FinishTask(p)
    \/ Collect
    \/ Assemble
    \/ WriteMarkdown

Spec == Init /\ [][Next]_vars

\* Scheduling: the thread of pdf_to_markdown and the pool threads keep
\* running, a queued work item is taken when a pool thread is free, and every
\* extraction request eventually returns or raises
Fairness ==
    /\ WF_vars(OpenPdf)
    /\ WF_vars(Submit)
    /\ WF_vars(StartTask)
    /\ \A p \in 1..MaxPages + 1 : WF_vars(FinishTask(p))
    /\ WF_vars(Collect)
    /\ WF_vars(Assemble)
    /\ WF_vars(WriteMarkdown)

\* the runs of Init in which every page shows the image "a" and a failing
\* request raises the cause "t": scheduling does not read the texts
InitLive ==
    /\ Init
    /\ \A k \in 1..Len(images) : images[k] = <<1>> /\ fails[k] \in {Ok, <<"t">>}

SpecLive == InitLive /\ [][Next]_vars /\ Fairness

\* State at the call of pdf_to_markdown on an existing PDF when the page count
\* reported by pdfinfo_from_path and the number of images rendered by
\* pdf_to_images, two separate reads of the file, need not agree
InitDeclared ==
    /\ pdf_exists = TRUE
    /\ \E n \in 1..MaxPages :
         /\ images \in [1..n -> ImageIds]
         /\ fails \in [1..n -> {Ok, <<"t">>}]
         /\ futures = [p \in 1..n |-> Pending]
    /\ total \in 1..MaxPages
    /\ workers \in 1..MaxWorkers
    /\ pc = "start"
    /\ submitted = 0
    /\ started = 0
    /\ running = {}
    /\ collected = 0
    /\ results = EmptyDict
    /\ assembled = 0
    /\ md = <<>>
    /\ completion = <<>>
    /\ mdfile = NoFile
    /\ Stage2Idle

SpecDeclared == InitDeclared /\ [][Next]_vars

---------------------------------------------------------------------------
\* Module2.py: extract_rules_from_markdown and its two strategies

\* the strategy thresholds
SinglePassMaxPages == 10
SmallDocumentPages == 3

\* total_pages >= 10: the boundary taken on the wrong side
AutoSlidingWindowInclusive(n) == n >= SinglePassMaxPages

\* if use_sliding_window is None: use_sliding_window = total_pages > 10
AutoSlidingWindow(n) == n > SinglePassMaxPages

UseSlidingWindow(ov, n) ==
    IF ov = "None" THEN (IF AutoSlidingWindow(n) THEN "True" ELSE "False") ELSE ov

\* total_pages < 3
FallsBackBelow(n) == n < SmallDocumentPages

\* if total_pages <= 3: return extract_rules_from_markdown_single_pass(...)
FallsBackToSinglePass(n) == n <= SmallDocumentPages

Max(a, b) == IF a >= b THEN a ELSE b
Min(a, b) == IF a <= b THEN a ELSE b

\* start_page = i - 1, not clamped
WindowStartUnclamped(i) == i - 1

\* start_page = max(1, i - 1)
WindowStart(i) == Max(1, i - 1)
\* end_page = min(total_pages, i): the page after the focus page is left out
WindowEndNarrow(i, n) == Min(n, i)

\* end_page = min(total_pages, i + 1)
WindowEnd(i, n) == Min(n, i + 1)
\* window_pages = range(start_page, end_page + 1)
WindowPages(i, n) ==
    [k \in 1..(WindowEnd(i, n) - WindowStart(i) + 1) |-> WindowStart(i) + k - 1]

\* range(1, total_pages): the last focus page is left out
WindowLoopEndsEarly(i, n) == i >= n - 1

\* for i in range(1, total_pages + 1): the iteration of focus page i is the last
WindowLoopEnds(i, n) == i = n

\* the answer of the analysis service to a request: opaque text, told apart
\* by the request it answers
Report(kind, focus) == [kind |-> "report", of |-> kind, focus |-> focus]

\* the reports enumerated last to first: WINDOW 1 is the last window's report
LabelWindowsReversed(exts) ==
    [k \in 1..Len(exts) |-> [label |-> k, ext |-> exts[Len(exts) - k + 1]]]

\* f"=== WINDOW {i} ===..." : labels counted from 0
LabelWindowsFromZero(exts) == [k \in 1..Len(exts) |-> [label |-> k - 1, ext |-> exts[k]]]

\* f"=== WINDOW {i+1} ===\n{ext}\n" for i, ext in enumerate(all_extractions)
LabelWindows(exts) == [k \in 1..Len(exts) |-> [label |-> k, ext |-> exts[k]]]

\* an exception of a service call caught where it is raised: the step at
\* position at is taken again
OnCallFailureRetry(at) == at

\* no service call of Module 2 is inside a try block: its exception leaves
\* the strategy and extract_rules_from_markdown
OnCallFailure(at) == "raised"

\* state of pdf_to_markdown when only Module 2 is run
Stage1Idle ==
    /\ pdf_exists = TRUE
    /\ images = <<>>
    /\ workers = 1
    /\ total = 0
    /\ fails = <<>>
    /\ pc = "idle"
    /\ submitted = 0
    /\ started = 0
    /\ running = {}
    /\ futures = <<>>
    /\ collected = 0
    /\ results = EmptyDict
    /\ assembled = 0
    /\ md = <<>>
    /\ completion = <<>>

\* the page-delimited file pdf_to_markdown writes for the sections nums, in
\* that order, with the page texts res
Document(res, nums) ==
    Join(DocHeader(Len(nums)) \o
         [j \in 1..(3 * Len(nums)) |->
            LET k == nums[(j + 2) \div 3] IN
            CASE j % 3 = 1 -> PageHeader(k)
              [] j % 3 = 2 -> DictGet(res, k, Missing)
              [] OTHER -> Separator])

\* input files of Module 2: the file of an n-page document whose pages all
\* read "a", and the same file with the section of page 2 deleted by hand
PlainDocument(n) == Document([k \in 1..n |-> <<"a">>], [k \in 1..n |-> k])
GapDocument(n) ==
    Document([k \in 1..n |-> <<"a">>], [k \in 1..(n - 1) |-> IF k = 1 THEN 1 ELSE k + 1])

InitStage2 ==
    /\ Stage1Idle
    /\ mdfile \in {NoFile}
                  \cup {File(PlainDocument(n)) : n \in 1..MaxDocPages}
                  \cup {File(GapDocument(n)) : n \in 3..MaxDocPages}
    /\ override \in {"None", "True", "False"}
    /\ use_sliding_window = override
    /\ pc2 = "start"
    /\ markdown_content = <<>>
    /\ total_pages = 0
    /\ pages = EmptyDict
    /\ win = 0
    /\ all_extractions = <<>>
    /\ calls = <<>>
    /\ result = None
    /\ rules_file = NoFile
    /\ input_pieces = <<>>

\* markdown_content = load_markdown_file(markdown_path), which raises
\* FileNotFoundError for a missing file; pages = parse_markdown_by_pages(...);
\* total_pages = len(pages)
LoadMarkdown ==
    /\ pc2 = "start"
    /\ IF mdfile.exists
       THEN /\ markdown_content' = mdfile.text
            /\ pages' = ParseMarkdownByPages(mdfile.text)
            /\ total_pages' = Cardinality(DOMAIN ParseMarkdownByPages(mdfile.text))
            /\ pc2' = "decide"
       ELSE /\ pc2' = "notfound"
            /\ UNCHANGED <<markdown_content, pages, total_pages>>
    /\ UNCHANGED <<vars1, mdfile, input_pieces, override, use_sliding_window, win,
                   all_extractions, calls, result, rules_file>>

\* the strategy decision of extract_rules_from_markdown
Decide ==
    /\ pc2 = "decide"
    /\ use_sliding_window' = UseSlidingWindow(use_sliding_window, total_pages)
    /\ pc2' = IF UseSlidingWindow(use_sliding_window, total_pages) = "True"
              THEN "sliding" ELSE "single"
    /\ UNCHANGED <<vars1, mdfile, input_pieces, override, markdown_content, total_pages, pages,
                   win, all_extractions, calls, result, rules_file>>

\* entry of extract_rules_from_markdown_sliding_window: parse again, fall
\* back to single pass for a small document, else start the window loop
EnterSlidingWindow ==
    /\ pc2 = "sliding"
    /\ pages' = ParseMarkdownByPages(markdown_content)
    /\ IF FallsBackToSinglePass(Cardinality(DOMAIN ParseMarkdownByPages(markdown_content)))
       THEN /\ pc2' = "single"
            /\ win' = win
       ELSE /\ pc2' = "window"
            /\ win' = 1
    /\ all_extractions' = <<>>
    /\ UNCHANGED <<vars1, mdfile, input_pieces, override, use_sliding_window, markdown_content,
                   total_pages, calls, result, rules_file>>

\* extract_rules_from_markdown_single_pass: one request over the whole text;
\* its answer is returned, its exception propagates
SinglePassCall ==
    /\ pc2 = "single"
    /\ \E ok \in BOOLEAN :
         /\ calls' = Append(calls, [kind |-> "single", ok |-> ok,
                                    content |-> markdown_content])
         /\ IF ok
            THEN /\ result' = Report("single", 0)
                 /\ pc2' = "save"
            ELSE /\ result' = result
                 /\ pc2' = OnCallFailure("single")
    /\ UNCHANGED <<vars1, mdfile, input_pieces, override, use_sliding_window, markdown_content,
                   total_pages, pages, win, all_extractions, rules_file>>

\* one iteration of the window loop: the window of focus page win is built
\* (pages[page_num] raises KeyError for a page the parser did not return),
\* one request is issued and its answer appended
WindowCall ==
    /\ pc2 = "window"
    /\ LET n == Cardinality(DOMAIN pages)
           wp == WindowPages(win, n)
       IN IF \E k \in 1..Len(wp) : wp[k] \notin DOMAIN pages
          THEN /\ pc2' = "raised"
               /\ UNCHANGED <<calls, all_extractions, win>>
          ELSE \E ok \in BOOLEAN :
                 /\ calls' = Append(calls,
                        [kind |-> "window", ok |-> ok, focus |-> win,
                         start |-> WindowStart(win), end |-> WindowEnd(win, n),
                         window_pages |-> wp,
                         content |-> [k \in 1..Len(wp) |-> <<wp[k], pages[wp[k]]>>]])
                 /\ IF ok
                    THEN /\ all_extractions' = Append(all_extractions, Report("window", win))
                         /\ win' = win + 1
                         /\ pc2' = IF WindowLoopEnds(win, n) THEN "consolidate" ELSE "window"
                    ELSE /\ pc2' = OnCallFailure("window")
                         /\ UNCHANGED <<all_extractions, win>>
    /\ UNCHANGED <<vars1, mdfile, input_pieces, override, use_sliding_window, markdown_content,
                   total_pages, pages, result, rules_file>>

\* the consolidation request over all window answers, labelled WINDOW 1..
ConsolidateCall ==
    /\ pc2 = "consolidate"
    /\ \E ok \in BOOLEAN :
         /\ calls' = Append(calls, [kind |-> "consolidate", ok |-> ok,
                                    total_pages |-> Cardinality(DOMAIN pages),
                                    windows |-> LabelWindows(all_extractions)])
         /\ IF ok
            THEN /\ result' = Report("consolidate", 0)
                 /\ pc2' = "save"
            ELSE /\ result' = result
                 /\ pc2' = OnCallFailure("consolidate")
    /\ UNCHANGED <<vars1, mdfile, input_pieces, override, use_sliding_window, markdown_content,
                   total_pages, pages, win, all_extractions, rules_file>>

\* the report file: banner, source metadata, then the result
SaveReport ==
    /\ pc2 = "save"
    /\ rules_file' = [exists |-> TRUE, total_pages |-> total_pages, body |-> result]
    /\ pc2' = "done"
    /\ UNCHANGED <<vars1, mdfile, input_pieces, override, use_sliding_window, markdown_content,
                   total_pages, pages, win, all_extractions, calls, result>>

NextStage2 ==
    \/ LoadMarkdown
    \/ Decide
    \/ EnterSlidingWindow
    \/ SinglePassCall
    \/ WindowCall
    \/ ConsolidateCall
    \/ SaveReport

SpecStage2 == InitStage2 /\ [][NextStage2]_vars

\* Hand-made input files of Module 2: headers of pages 1 and 2, two texts,
\* the separator, and a header without a page number
InputPieces == << <<"#", "#", " ", "P", "a", "g", "e", " ", "1", "\n", "\n">>,
                  <<"#", "#", " ", "P", "a", "g", "e", " ", "2", "\n", "\n">>,
                  <<"a">>,
                  <<" ", "b", "\n">>,
                  <<"\n", "\n", "-", "-", "-", "\n", "\n">>,
                  <<"#", "#", " ", "P", "a", "g", "e", " ", "x", "\n", "\n">> >>

InputText(ps) == Join([k \in 1..Len(ps) |-> InputPieces[ps[k]]])

InitParser ==
    /\ Stage1Idle
    /\ input_pieces \in UNION {[1..n -> 1..Len(InputPieces)] : n \in 0..MaxPieces}
    /\ mdfile = File(InputText(input_pieces))
    /\ override = "None"
    /\ use_sliding_window = "None"
    /\ pc2 = "start"
    /\ markdown_content = <<>>
    /\ total_pages = 0
    /\ pages = EmptyDict
    /\ win = 0
    /\ all_extractions = <<>>
    /\ calls = <<>>
    /\ result = None
    /\ rules_file = NoFile

\* the load and parse of extract_rules_from_markdown on any such file
SpecParser == InitParser /\ [][LoadMarkdown]_vars

\* either program is run on its own: Module1.py on a PDF path, or Module2.py
\* on a markdown path
SpecEitherModule == (Init \/ InitStage2) /\ [][Next \/ NextStage2]_vars

---------------------------------------------------------------------------
\* Round trip: the assembly loop of pdf_to_markdown followed by the parse of
\* extract_rules_from_markdown

\* State of pdf_to_markdown when extract_parallel has returned: page rich
\* shows any image of at most MaxChunks pieces, the other pages read "a"
InitRoundTrip ==
    /\ \E n \in 1..MaxPages : \E rich \in 1..n : \E img \in ImagesUpTo(MaxChunks) :
         /\ images = [k \in 1..n |-> IF k = rich THEN img ELSE <<1>>]
         /\ total = n
         /\ fails = [k \in 1..n |-> Ok]
         /\ submitted = n
         /\ started = n
         /\ collected = n
         /\ completion = [k \in 1..n |-> k]
         /\ md = DocHeader(n)
    /\ futures = [k \in 1..Len(images) |-> ExtractPage(images[k], k, Ok)]
    /\ pdf_exists = TRUE
    /\ results = [k \in 1..Len(images) |-> Transcribe(images[k])]
    /\ workers = 1
    /\ pc = "assemble"
    /\ running = {}
    /\ assembled = 0
    /\ mdfile = NoFile
    /\ override = "None"
    /\ use_sliding_window = "None"
    /\ pc2 = "start"
    /\ markdown_content = <<>>
    /\ total_pages = 0
    /\ pages = EmptyDict
    /\ win = 0
    /\ all_extractions = <<>>
    /\ calls = <<>>
    /\ result = None
    /\ rules_file = NoFile
    /\ input_pieces = <<>>

NextRoundTrip ==
    \/ Assemble
    \/ WriteMarkdown
    \/ LoadMarkdown

SpecRoundTrip == InitRoundTrip /\ [][NextRoundTrip]_vars

---------------------------------------------------------------------------
\* Reading the assembled list md: two header pieces, then three pieces
\* (header, content, separator) per section

SectionCount(m) == (Len(m) - 2) \div 3
SectionNumber(m, k) == ParseInt(SubSeq(m[3 * k], 9, Len(m[3 * k]) - 2))
SectionContent(m, k) == m[3 * k + 1]

\* what extract_page yields for page k, from page k's own image and outcome
OwnOutput(k) == IF fails[k] = Ok THEN Transcribe(images[k])
                ELSE <<"[", "E", "r", "r", "o", "r", ":", " ">> \o fails[k] \o <<"]">>

\* C1: whatever the number of images N, the worker bound and the completion
\* order, the document returned has exactly N sections and the k-th section
\* carries page number k (strictly increasing 1..N, no gap, no duplicate);
\* while it is being assembled the sections present are numbered 1, 2, ...
C1_OrderedDocument ==
    /\ pc \in {"assemble", "done"} =>
         /\ Len(md) = 2 + 3 * SectionCount(md)
         /\ \A k \in 1..SectionCount(md) : SectionNumber(md, k) = k
    /\ pc = "done" =>
         /\ SectionCount(md) = Len(images)
         /\ mdfile = File(Join(md))

\* a finished 3-page run on at least 2 workers in which page 1 did not
\* complete first
C1_Witness ==
    /\ pc = "done"
    /\ Len(images) >= 3
    /\ workers >= 2
    /\ completion[1] # 1
    /\ SectionCount(md) = Len(images)

\* C2: single-page failure isolation. The coordinator call never raises; in
\* the returned document the content of a failed page k is the marker
\* "[Error: <cause>]" and the content of every page is fixed by that page's
\* own image and outcome alone (so it is the same whether or not any other
\* page failed); every task ran to completion (none was cancelled).
C2_FailureIsolation ==
    /\ pc # "raised"
    /\ pc = "done" =>
         \A k \in 1..Len(images) :
           /\ futures[k] # Pending
           /\ futures[k].kind = "value"
           /\ SectionContent(md, k) = OwnOutput(k)

\* a finished run in which a page failed and a later and an earlier page
\* succeeded
C2_Witness ==
    /\ pc = "done"
    /\ Len(images) >= 3
    /\ fails[1] = Ok
    /\ fails[2] # Ok
    /\ fails[3] = Ok
    /\ SectionContent(md, 2) = OwnOutput(2)

\* C11: stage 1 always completes. Under fair scheduling, with every request
\* returning or raising, a run on an existing PDF of N pages reaches the end
\* with a file of all N sections, whatever pages failed; and a file that has
\* been written always holds all N sections, never only some of them.
C11_AlwaysCompletes ==
    /\ [](pdf_exists => <>(/\ pc = "done"
                           /\ SectionCount(md) = Len(images)
                           /\ mdfile = File(Join(md))))
    /\ [](mdfile.exists => (/\ pc = "done"
                            /\ assembled = Len(images)
                            /\ SectionCount(md) = Len(images)))

\* a finished run in which every page failed, with all sections written
C11_Witness ==
    /\ pc = "done"
    /\ Len(images) >= 2
    /\ \A k \in 1..Len(images) : fails[k] # Ok
    /\ SectionCount(md) = Len(images)
    /\ mdfile.exists

\* C3: at most max_workers extraction requests are in flight
C3_BoundedInFlight == Cardinality(running) <= workers

\* the pool is full while a submitted page is still waiting in the queue
C3_Witness ==
    /\ workers >= 2
    /\ Cardinality(running) = workers
    /\ started < submitted

---------------------------------------------------------------------------
\* Reading the log of analysis-service requests

CallsOfKind(kind) == {k \in 1..Len(calls) : calls[k].kind = kind}
SlidingWindowRan == Len(calls) > 0 /\ calls[1].kind = "window"
SinglePassRan == Len(calls) > 0 /\ calls[1].kind = "single"
AfterDecision == pc2 \notin {"start", "decide", "notfound"}

\* C4: round trip. Once the file written by pdf_to_markdown for a document of
\* P pages has been parsed, the page map has exactly the keys 1..P and each
\* page's text is the original text with surrounding whitespace removed.
C4_RoundTrip ==
    pc2 = "decide" =>
      /\ DOMAIN pages = 1..total
      /\ \A k \in 1..total : pages[k] = Strip(results[k])

\* C5: with no override, a parsed page count of at most 10 runs single pass
\* (only a single-pass request is ever issued) and a page count of 11 or more
\* runs the sliding window (only window and consolidation requests).
C5_AutoStrategy ==
    (override = "None" /\ AfterDecision) =>
      IF total_pages <= 10
      THEN /\ pc2 \in {"single", "save", "done", "raised"}
           /\ CallsOfKind("window") = {} /\ CallsOfKind("consolidate") = {}
           /\ (pc2 = "done" => SinglePassRan)
      ELSE /\ total_pages >= 11
           /\ pc2 \in {"sliding", "window", "consolidate", "save", "done", "raised"}
           /\ CallsOfKind("single") = {}
           /\ (pc2 = "done" => SlidingWindowRan)

\* an 11-page document with no override, finished by the sliding window
C5_Witness ==
    /\ override = "None"
    /\ total_pages = 11
    /\ pc2 = "done"
    /\ SlidingWindowRan
    /\ Cardinality(CallsOfKind("window")) = 11

\* C6: a forced single pass issues no window or consolidation request
\* whatever P is; a forced sliding window over P >= 4 pages issues no
\* single-pass request; when the sliding window is selected and P <= 3 the
\* run falls back: no window or consolidation request, and a finished run has
\* issued exactly one request, the single-pass one.
C6_OverrideAndFallback ==
    AfterDecision =>
      /\ override = "False" =>
           /\ pc2 \in {"single", "save", "done", "raised"}
           /\ CallsOfKind("window") = {} /\ CallsOfKind("consolidate") = {}
           /\ (pc2 = "done" => SinglePassRan)
      /\ (override = "True" /\ total_pages >= 4) =>
           /\ pc2 \in {"sliding", "window", "consolidate", "save", "done", "raised"}
           /\ CallsOfKind("single") = {}
           /\ (pc2 = "done" => SlidingWindowRan)
      /\ (use_sliding_window = "True" /\ total_pages <= 3) =>
           /\ pc2 \in {"sliding", "single", "save", "done", "raised"}
           /\ CallsOfKind("window") = {} /\ CallsOfKind("consolidate") = {}
           /\ Len(calls) <= 1
           /\ (pc2 = "done" => Len(calls) = 1 /\ SinglePassRan)

\* a 3-page document with the sliding window forced, finished by one
\* single-pass request
C6_Witness ==
    /\ override = "True"
    /\ total_pages = 3
    /\ pc2 = "done"
    /\ Len(calls) = 1
    /\ calls[1].kind = "single"

\* C7: every window request has the focus page of its turn and is the
\* contiguous range [max(1, i-1), min(P, i+1)]: 1 <= start <= i <= end <= P,
\* three pages for an interior focus page and two for an edge page; the window
\* about to be built is in range too; for P = 10 the windows of focus pages
\* 1, 5 and 10 are [1,2], [4,6] and [9,10].
C7_WindowConstruction ==
    LET P == Cardinality(DOMAIN pages)
        W == CallsOfKind("window")
    IN /\ \A k \in W :
            LET c == calls[k] IN
            /\ c.focus \in 1..P
            /\ c.start = (IF c.focus = 1 THEN 1 ELSE c.focus - 1)
            /\ c.end = (IF c.focus = P THEN P ELSE c.focus + 1)
            /\ 1 <= c.start /\ c.start <= c.focus /\ c.focus <= c.end /\ c.end <= P
            /\ Len(c.window_pages) = (IF c.focus \in {1, P} THEN 2 ELSE 3)
            /\ \A j \in 1..Len(c.window_pages) : c.window_pages[j] = c.start + j - 1
            /\ c.window_pages[Len(c.window_pages)] = c.end
            /\ P = 10 =>
                 /\ c.focus = 1 => <<c.start, c.end>> = <<1, 2>>
                 /\ c.focus = 5 => <<c.start, c.end>> = <<4, 6>>
                 /\ c.focus = 10 => <<c.start, c.end>> = <<9, 10>>
       /\ pc2 = "window" =>
            /\ 1 <= WindowStart(win) /\ WindowStart(win) <= win
            /\ win <= WindowEnd(win, P) /\ WindowEnd(win, P) <= P

\* a finished sliding-window run over 10 pages whose windows 1, 5 and 10
\* were requested
C7_Witness ==
    /\ pc2 = "done"
    /\ Cardinality(DOMAIN pages) = 10
    /\ Cardinality(CallsOfKind("window")) = 10
    /\ calls[1].window_pages = <<1, 2>>
    /\ calls[5].window_pages = <<4, 5, 6>>
    /\ calls[10].window_pages = <<9, 10>>

\* C8: a consolidation request carries exactly P window reports, the k-th
\* labelled k and being the report of the window of focus page k; there is at
\* most one such request, and exactly one in a finished sliding-window run;
\* a single-pass run issues none and its report is the result as it stands.
C8_Consolidation ==
    LET P == Cardinality(DOMAIN pages) IN
    /\ Cardinality(CallsOfKind("consolidate")) <= 1
    /\ \A k \in CallsOfKind("consolidate") :
         /\ Len(calls[k].windows) = P
         /\ \A j \in 1..P : /\ calls[k].windows[j].label = j
                            /\ calls[k].windows[j].ext = Report("window", j)
         /\ k = P + 1
    /\ (pc2 = "done" /\ SlidingWindowRan) =>
         /\ Cardinality(CallsOfKind("consolidate")) = 1
         /\ result = Report("consolidate", 0)
    /\ SinglePassRan =>
         /\ CallsOfKind("consolidate") = {}
         /\ all_extractions = <<>>
         /\ (pc2 \in {"save", "done"} => result = Report("single", 0))
         /\ (pc2 = "done" => rules_file.body = Report("single", 0))

\* a finished sliding-window run over 11 pages: its 12th request is the
\* consolidation of 11 labelled reports
C8_Witness ==
    /\ pc2 = "done"
    /\ Cardinality(DOMAIN pages) = 11
    /\ Len(calls) = 12
    /\ calls[12].kind = "consolidate"
    /\ Len(calls[12].windows) = 11

\* C9: a finished stage-2 run has issued P window requests and 1
\* consolidation request, P + 1 in all, when the sliding window ran, and
\* exactly 1 request when single pass ran.
C9_CallCount ==
    pc2 = "done" =>
      IF SlidingWindowRan
      THEN /\ Len(calls) = total_pages + 1
           /\ Cardinality(CallsOfKind("window")) = total_pages
           /\ Cardinality(CallsOfKind("consolidate")) = 1
           /\ CallsOfKind("single") = {}
      ELSE /\ Len(calls) = 1
           /\ calls[1].kind = "single"

\* a finished 15-page run: 15 window requests and 1 consolidation request
C9_Witness ==
    /\ pc2 = "done"
    /\ total_pages = 15
    /\ Len(calls) = 16
    /\ Cardinality(CallsOfKind("window")) = 15

\* C10: all or nothing. A failed request is the last request issued, the run
\* has ended with the failure raised, no result is returned and no report
\* file is written; a report file exists only for a finished run without any
\* failed request.
C10_AllOrNothing ==
    /\ \A k \in 1..Len(calls) :
         ~calls[k].ok =>
           /\ k = Len(calls)
           /\ pc2 = "raised"
           /\ result = None
           /\ rules_file = NoFile
    /\ pc2 = "raised" => (result = None /\ rules_file = NoFile)
    /\ rules_file # NoFile => (pc2 = "done" /\ \A k \in 1..Len(calls) : calls[k].ok)

\* the request of the third window failed after two answered windows
C10_Witness ==
    /\ pc2 = "raised"
    /\ Len(calls) = 3
    /\ calls[3].kind = "window"
    /\ ~calls[3].ok
    /\ Len(all_extractions) = 2
    /\ rules_file = NoFile

\* C12: a missing input file is fatal and detected first. pdf_to_markdown on
\* a missing PDF ends with FileNotFoundError and has submitted no task, issued
\* no extraction request and written no markdown file; it ends that way only
\* for a missing PDF. extract_rules_from_markdown on a missing markdown file
\* ends with FileNotFoundError, having issued no analysis request and written
\* no report file; it ends that way only for a missing file.
C12_MissingInputFirst ==
    /\ ~pdf_exists =>
         /\ pc \in {"start", "notfound"}
         /\ submitted = 0 /\ started = 0 /\ running = {} /\ completion = <<>>
         /\ mdfile = NoFile
    /\ pc = "notfound" => ~pdf_exists
    /\ (~mdfile.exists /\ pc2 # "idle") =>
         /\ pc2 \in {"start", "notfound"}
         /\ calls = <<>>
         /\ result = None
         /\ rules_file = NoFile
    /\ pc2 = "notfound" => ~mdfile.exists

\* extract_rules_from_markdown has ended on a missing markdown file
C12_Witness ==
    /\ pc2 = "notfound"
    /\ ~mdfile.exists
    /\ calls = <<>>
    /\ rules_file = NoFile

\* C13: no retry. Every request issued is in flight or has completed, no
\* page completes twice or is in flight again after it completed, and a
\* finished run has issued exactly N requests, one for each page 1..N,
\* whether they returned or raised.
C13_NoRetry ==
    /\ started = Len(completion) + Cardinality(running)
    /\ started <= Len(images)
    /\ \A i, j \in 1..Len(completion) : i # j => completion[i] # completion[j]
    /\ \A i \in 1..Len(completion) : completion[i] \notin running
    /\ pc = "done" =>
         /\ started = Len(images)
         /\ {completion[i] : i \in 1..Len(completion)} = 1..Len(images)

\* a finished 3-page run in which two requests raised: 3 requests in all
C13_Witness ==
    /\ pc = "done"
    /\ Len(images) = 3
    /\ fails[1] # Ok /\ fails[3] # Ok /\ fails[2] = Ok
    /\ started = 3
    /\ Len(completion) = 3

\* C14: the page-number-to-content mapping does not depend on the schedule.
\* The pair set in the future of the k-th task is keyed k and holds what the
\* service answers for image k; the dict holds, for the pages collected so
\* far, each page's own output; once collection is over it is the one mapping
\* fixed by the images and the per-page outcomes, whatever the interleaving
\* and completion order were.
C14_ScheduleIndependent ==
    /\ \A k \in 1..Len(images) :
         futures[k] # Pending => futures[k] = [kind |-> "value", val |-> <<k, OwnOutput(k)>>]
    /\ DOMAIN results = 1..collected
    /\ \A k \in DOMAIN results : results[k] = OwnOutput(k)
    /\ pc \in {"assemble", "done"} =>
         /\ DOMAIN results = 1..Len(images)
         /\ \A k \in 1..Len(images) : SectionCount(md) >= k => SectionContent(md, k) = results[k]

\* a finished run whose requests completed in the order 3, 1, 2 on pages
\* with different images
C14_Witness ==
    /\ pc = "done"
    /\ completion = <<3, 1, 2>>
    /\ images[1] # images[3]
    /\ results[3] = OwnOutput(3)

\* C15: stage-2 ordering. The k-th request of a sliding-window run is the
\* window of focus page k and is issued when the k-1 windows before it have
\* all returned; the consolidation request is the (P+1)-th, issued when all P
\* windows have returned, and the report it labels WINDOW j is the report of
\* the window whose focus page is j.
C15_Stage2Ordering ==
    LET P == Cardinality(DOMAIN pages) IN
    /\ \A k \in CallsOfKind("window") :
         /\ calls[k].focus = k
         /\ \A j \in 1..(k - 1) : calls[j].kind = "window" /\ calls[j].ok
    /\ pc2 = "window" =>
         /\ win = Len(calls) + 1
         /\ all_extractions = [j \in 1..Len(calls) |-> Report("window", calls[j].focus)]
    /\ \A k \in CallsOfKind("consolidate") :
         /\ k = P + 1
         /\ \A j \in 1..P :
              /\ calls[j].kind = "window" /\ calls[j].ok /\ calls[j].focus = j
              /\ calls[k].windows[j].label = calls[j].focus
              /\ calls[k].windows[j].ext = Report("window", calls[j].focus)

\* a finished sliding-window run over 4 pages: four windows in page order,
\* then the consolidation of their four reports
C15_Witness ==
    /\ pc2 = "done"
    /\ Cardinality(DOMAIN pages) = 4
    /\ Len(calls) = 5
    /\ calls[4].kind = "window" /\ calls[4].focus = 4
    /\ calls[5].kind = "consolidate"
    /\ calls[5].windows[4].ext = Report("window", 4)

---------------------------------------------------------------------------
\* What the page grammar yields for a file given by its pieces, read piece
\* by piece: outside a page only a numbered header opens a page; inside a
\* page every piece but the separator is content, headers included; the
\* separator or the end of the input closes the page, and a page closed later
\* replaces an earlier page of the same number.

HeaderNumberOf(piece) == IF piece \in {1, 2} THEN piece ELSE 0

RECURSIVE PagesOfPieces(_, _, _, _, _)
PagesOfPieces(ps, i, cur, acc, d) ==
    LET put == [x \in (DOMAIN d) \cup {cur} |-> IF x = cur THEN Strip(acc) ELSE d[x]] IN
    IF i > Len(ps) THEN (IF cur = 0 THEN d ELSE put)
    ELSE IF cur = 0
         THEN PagesOfPieces(ps, i + 1, HeaderNumberOf(ps[i]), <<>>, d)
         ELSE IF ps[i] = 5
              THEN PagesOfPieces(ps, i + 1, 0, <<>>, put)
              ELSE PagesOfPieces(ps, i + 1, cur, acc \o InputPieces[ps[i]], d)

\* C16: the parser never rejects malformed input. For any input put together
\* from headers, texts, separators and broken headers, in any order, the
\* parse returns a map: one entry per page number whose header opened a page,
\* none for the others, the empty map when no numbered header occurs, and for
\* a page number opened more than once the text of the last occurrence.
C16_ParserTotal ==
    pc2 # "start" =>
      /\ pc2 = "decide"
      /\ pages = PagesOfPieces(input_pieces, 1, 0, <<>>, EmptyDict)
      /\ total_pages = Cardinality(DOMAIN pages)
      /\ DOMAIN pages \subseteq
           {HeaderNumberOf(input_pieces[k]) : k \in 1..Len(input_pieces)} \ {0}
      /\ (\A k \in 1..Len(input_pieces) : HeaderNumberOf(input_pieces[k]) = 0)
           => pages = EmptyDict

\* the file "## Page 1", separator, "## Page 1", "a" has been parsed: the
\* later text of page 1 replaced the earlier, empty one
C16_Witness ==
    /\ pc2 = "decide"
    /\ input_pieces = <<1, 5, 1, 3>>
    /\ DOMAIN pages = {1}
    /\ pages[1] = <<"a">>

---------------------------------------------------------------------------
\* C17: window lookups never fail. Whenever the sliding-window loop is about
\* to build the window of focus page win over a parsed map of more than 3
\* pages, every page number start_page..end_page of that window is a key of
\* the map, also when the parsed page numbers are not 1..P.
C17_WindowLookups ==
    LET P == Cardinality(DOMAIN pages) IN
    (pc2 = "window" /\ P > SmallDocumentPages) =>
        \A j \in WindowStart(win)..WindowEnd(win, P) : j \in DOMAIN pages

---------------------------------------------------------------------------
\* the page numbers whose text was put into the k-th request
PagesInRequest(k) ==
    {calls[k].content[x][1] : x \in 1..Len(calls[k].content)}

\* the window requests whose content holds page j
WindowsHolding(j) == {k \in CallsOfKind("window") : j \in PagesInRequest(k)}

\* C18: window coverage. In a sliding-window run over P > 3 pages, the
\* request of focus page i holds page j exactly when |i - j| <= 1; once all
\* P windows were requested, each page is held by 2 or 3 of them (2 for pages
\* 1 and P), and each adjacent pair (j, j+1) is held together by some window.
C18_WindowCoverage ==
    LET P == Cardinality(DOMAIN pages) IN
    /\ \A k \in CallsOfKind("window") :
         /\ P > SmallDocumentPages
         /\ \A j \in 1..P :
              j \in PagesInRequest(k) <=>
                 (calls[k].focus - j \in {-1, 0, 1})
         /\ PagesInRequest(k) \subseteq 1..P
    /\ Cardinality(CallsOfKind("window")) = P =>
         /\ \A j \in 1..P :
              /\ Cardinality(WindowsHolding(j)) = (IF j \in {1, P} THEN 2 ELSE 3)
              /\ WindowsHolding(j) = {k \in CallsOfKind("window") :
                                         calls[k].focus - j \in {-1, 0, 1}}
         /\ \A j \in 1..(P - 1) : WindowsHolding(j) \cap WindowsHolding(j + 1) # {}

\* all 5 windows of a 5-page document were requested: page 1 is held by
\* windows 1 and 2, page 3 by windows 2, 3 and 4
C18_Witness ==
    /\ Cardinality(DOMAIN pages) = 5
    /\ Cardinality(CallsOfKind("window")) = 5
    /\ WindowsHolding(1) = {1, 2}
    /\ WindowsHolding(3) = {2, 3, 4}
    /\ 4 \in WindowsHolding(4) \cap WindowsHolding(5)

---------------------------------------------------------------------------
\* C19: the assembled document is shaped by the declared page count. While
\* the document is assembled it has one section per page number done so far,
\* never more than total; the document written has exactly total sections,
\* the k-th numbered k, whatever the number of extraction results; a page
\* number without a result carries the text "[Missing]", a page number with a
\* result carries that result, and a result of a page number above total has
\* no section.
C19_DeclaredPageCount ==
    /\ pc = "assemble" =>
         /\ SectionCount(md) = assembled
         /\ assembled <= total
    /\ pc = "done" =>
         /\ DOMAIN results = 1..Len(images)
         /\ SectionCount(md) = total
         /\ Len(md) = 2 + 3 * total
         /\ \A k \in 1..total :
              /\ SectionNumber(md, k) = k
              /\ SectionContent(md, k) =
                   (IF k \in DOMAIN results
                    THEN results[k]
                    ELSE <<"[", "M", "i", "s", "s", "i", "n", "g", "]">>)
         /\ mdfile = File(Join(md))

\* a document written for a PDF declared with 2 pages of which 1 image was
\* rendered: section 1 is the result of page 1, section 2 is the placeholder
C19_Witness ==
    /\ pc = "done"
    /\ total = 2
    /\ Len(images) = 1
    /\ SectionCount(md) = 2
    /\ SectionContent(md, 1) = results[1]
    /\ SectionContent(md, 2) = <<"[", "M", "i", "s", "s", "i", "n", "g", "]">>

====
